---- MODULE Spec2Model ----
(***************************************************************************)
(* Model of the chat subsystem of src/src/Demo.tsx: the Chat component     *)
(* (message timeline, text input, staged image, input mode, camera and     *)
(* file import) and the part of StylistConsultationService that mounts and *)
(* unmounts it.                                                            *)
(*                                                                         *)
(* Every handler of the component is one action.  The asynchronous         *)
(* continuations the handlers start (the reply timer of setTimeout, the    *)
(* resolution of getUserMedia, the load event of FileReader) are actions   *)
(* of their own, because the browser runs them as later tasks.             *)
(*                                                                         *)
(* React state: a handler reads the state variables of the render it was   *)
(* created in (messages, inputMessage, capturedImage, showImageUpload are  *)
(* the committed values).  An update made by a click or change handler is  *)
(* committed before the next task runs.  An update made outside a React    *)
(* event (the timer callback, the FileReader load event) is queued and     *)
(* committed by a later scheduler task on a concurrent root, or at once on *)
(* a legacy root: pendingReplies and pendingImage hold the queued updates  *)
(* and CommitRender is that task, which may run immediately after or only  *)
(* after further events.                                                   *)
(***************************************************************************)
EXTENDS Naturals, Sequences, FiniteSets

\* ---------------------------------------------------------------- bounds
MaxSessions == 2      \* Chat instances mounted in one run
MaxSends    == 2      \* successful sends per session
MaxTextLen  == 1      \* characters of the typed text
MaxStreams  == 2      \* getUserMedia calls in one run
MaxReads    == 1      \* FileReader reads in flight
NumFiles    == 1      \* distinct files the user can pick
ChatSessions == 1     \* Chat instances mounted in a run of SpecChat
ChatStreams == 1      \* getUserMedia calls in a run of SpecChat
LifecycleSends == 1   \* successful sends per session in a run of SpecLifecycle

\* ------------------------------------------------------------ value sets
NoStylist == 0
Stylists  == {1, 2}                       \* ids of the two stylists
Chars     == {" ", "a"}
NoImage   == <<"none", 0>>                \* capturedImage === null
NoStream  == 0                            \* video.srcObject === null
NoUpdate  == <<"noupdate", 0>>            \* no queued setCapturedImage
\* A canvas nothing was drawn on, or one painted with the black frame of an
\* ended stream: toDataURL('image/jpeg') gives the same data URL for both.
BlankCanvas == <<"blank", 0>>

RECURSIVE TextsOfLen(_)
TextsOfLen(n) ==
    IF n = 0 THEN {<<>>}
    ELSE {Append(t, c) : t \in TextsOfLen(n - 1), c \in Chars}

Texts == UNION {TextsOfLen(n) : n \in 0..MaxTextLen}

Files == 1..NumFiles

\* The fixed text of the simulated reply.
ReplyText == <<"w", "a", "i", "t">>

\* ------------------------------------------------------- pure functions
RECURSIVE TrimStart(_)
TrimStart(s) ==
    IF s = <<>> THEN <<>>
    ELSE IF Head(s) = " " THEN TrimStart(Tail(s)) ELSE s

RECURSIVE TrimEnd(_)
TrimEnd(s) ==
    IF s = <<>> THEN <<>>
    ELSE IF s[Len(s)] = " " THEN TrimEnd(SubSeq(s, 1, Len(s) - 1)) ELSE s

\* String.prototype.trim
Trim(s) == TrimEnd(TrimStart(s))

\* The condition of handleSendMessage.
CanSendAlways(text, image) == TRUE
CanSendUntrimmed(text, image) == text # <<>> \/ image # NoImage
CanSend(text, image) == Trim(text) # <<>> \/ image # NoImage

\* The message handleSendMessage builds.
NewMessageNoImage(text, image) ==
    [text |-> text, sender |-> "user", image |-> NoImage]
NewMessage(text, image) ==
    [text |-> text, sender |-> "user", image |-> image]

\* The message the reply timer appends (it has no image field).
ReplyMessage == [text |-> ReplyText, sender |-> "stylist", image |-> NoImage]

RepliesDoubled(n) == [i \in 1..(2 * n) |-> ReplyMessage]
RECURSIVE Replies(_)
Replies(n) == IF n = 0 THEN <<>> ELSE Append(Replies(n - 1), ReplyMessage)

\* reader.readAsDataURL(file): the data URL of the file's bytes.
DataURLOfFile(f) == <<"file", f>>

\* getTracks().forEach(track => track.stop()) on stream b of the table strs.
StopTracks(strs, b) ==
    [i \in DOMAIN strs |->
        IF i = b THEN [strs[i] EXCEPT !.live = FALSE] ELSE strs[i]]

IsPrefix(s, t) == Len(s) <= Len(t) /\ SubSeq(t, 1, Len(s)) = s

UserCount(log) == Cardinality({i \in DOMAIN log : log[i].sender = "user"})

\* ----------------------------------------------------------------- state
VARIABLES
    selectedStylist,   \* StylistConsultationService: the stylist in chat, or NoStylist
    session,           \* number of the Chat instance mounted last
    messages,          \* Chat: committed messages state
    inputMessage,      \* Chat: committed inputMessage state
    showImageUpload,   \* Chat: committed showImageUpload state
    capturedImage,     \* Chat: committed capturedImage state
    pendingReplies,    \* queued prev => [...prev, reply] updates of messages
    pendingImage,      \* queued setCapturedImage(value) of a FileReader load
    timers,            \* armed setTimeout callbacks, in firing order, by owner
    cameraRequests,    \* unresolved getUserMedia calls, by owner
    streams,           \* every MediaStream obtained: [owner, live]
    srcObject,         \* the stream bound to the mounted video element
    fileReads,         \* FileReader reads in flight: [owner, file]
    appended,          \* the appends made to the mounted timeline, in call order
    canvas,            \* what the mounted canvas element holds
    videoReady,        \* the mounted video element has a frame of srcObject
    lastOp             \* the handler or callback that ran last

vars == <<selectedStylist, session, messages, inputMessage, showImageUpload,
          capturedImage, pendingReplies, pendingImage, timers, cameraRequests,
          streams, srcObject, fileReads, appended, canvas, videoReady,
          lastOp>>

chatState == <<messages, inputMessage, showImageUpload, capturedImage,
               pendingReplies, pendingImage, appended>>

\* The Chat instance o is the one on screen.
Mounted(o) == selectedStylist # NoStylist /\ o = session

\* A state setter of instance o (setMessages, setCapturedImage) called from a
\* callback has an effect: each instance has its own useState cells, and the
\* setter of an unmounted instance changes nothing.
SetStateAppliesToAny(o) == selectedStylist # NoStylist
SetStateApplies(o) == Mounted(o)

\* videoRef.current of instance o is an element.
VideoRefOfAny(o) == selectedStylist # NoStylist /\ showImageUpload
VideoRef(o) == Mounted(o) /\ showImageUpload

RemoveAt(s, i) == SubSeq(s, 1, i - 1) \o SubSeq(s, i + 1, Len(s))

Init ==
    /\ selectedStylist = NoStylist
    /\ session = 0
    /\ messages = <<>>
    /\ inputMessage = <<>>
    /\ showImageUpload = FALSE
    /\ capturedImage = NoImage
    /\ pendingReplies = 0
    /\ pendingImage = NoUpdate
    /\ timers = <<>>
    /\ cameraRequests = <<>>
    /\ streams = <<>>
    /\ srcObject = NoStream
    /\ fileReads = <<>>
    /\ appended = <<>>
    /\ canvas = BlankCanvas
    /\ videoReady = FALSE
    /\ lastOp = "init"

\* ------------------------------------------------- StylistConsultationService
\* onSelectStylist={setSelectedStylist}: a new Chat instance is mounted.
SelectStylist(s) ==
    /\ selectedStylist = NoStylist
    /\ session < MaxSessions
    /\ selectedStylist' = s
    /\ session' = session + 1
    /\ messages' = <<>>
    /\ inputMessage' = <<>>
    /\ showImageUpload' = FALSE
    /\ capturedImage' = NoImage
    /\ pendingReplies' = 0
    /\ pendingImage' = NoUpdate
    /\ appended' = <<>>
    /\ srcObject' = NoStream
    /\ canvas' = BlankCanvas
    /\ videoReady' = FALSE
    /\ lastOp' = "onSelectStylist"
    /\ UNCHANGED <<timers, cameraRequests, streams, fileReads>>

\* onBack={() => setSelectedStylist(null)}: the Chat instance is unmounted and
\* its state discarded.  Nothing else runs: the component has no cleanup.
onBack ==
    /\ selectedStylist # NoStylist
    /\ selectedStylist' = NoStylist
    /\ messages' = <<>>
    /\ inputMessage' = <<>>
    /\ showImageUpload' = FALSE
    /\ capturedImage' = NoImage
    /\ pendingReplies' = 0
    /\ pendingImage' = NoUpdate
    /\ appended' = <<>>
    /\ srcObject' = NoStream
    /\ canvas' = BlankCanvas
    /\ videoReady' = FALSE
    /\ lastOp' = "onBack"
    /\ UNCHANGED <<session, timers, cameraRequests, streams, fileReads>>

\* ----------------------------------------------------------------- Chat
\* onChange={(e) => setInputMessage(e.target.value)} of the text field, which
\* is rendered in text mode only.
ChangeInput(v) ==
    /\ selectedStylist # NoStylist
    /\ ~showImageUpload
    /\ inputMessage' = v
    /\ lastOp' = "onChange"
    /\ UNCHANGED <<canvas, videoReady,
                   selectedStylist, session, messages, showImageUpload,
                   capturedImage, pendingReplies, pendingImage, timers,
                   cameraRequests, streams, srcObject, fileReads, appended>>

\* The send button is on screen: it is in the branch of the conditional that
\* is rendered when showImageUpload is false, next to the text field.
SendButtonAlwaysRendered == selectedStylist # NoStylist
SendButtonRendered == selectedStylist # NoStylist /\ ~showImageUpload

\* handleSendMessage, bound to the send button, which is rendered in text mode
\* only.  setMessages([...messages, newMessage]) replaces the state by a value
\* built from the committed messages, so the queued functional updates of the
\* same hook are lost; setCapturedImage(null) likewise overrides a queued
\* setCapturedImage.
handleSendMessage ==
    /\ SendButtonRendered
    /\ lastOp' = "handleSendMessage"
    /\ IF CanSend(inputMessage, capturedImage)
       THEN /\ UserCount(appended) < MaxSends
            /\ messages' = Append(messages, NewMessage(inputMessage, capturedImage))
            /\ appended' = Append(appended, NewMessage(inputMessage, capturedImage))
            /\ pendingReplies' = 0
            /\ inputMessage' = <<>>
            /\ capturedImage' = NoImage
            /\ pendingImage' = NoUpdate
            /\ timers' = Append(timers, session)
       ELSE UNCHANGED <<messages, appended, pendingReplies, inputMessage,
                        capturedImage, pendingImage, timers>>
    /\ UNCHANGED <<canvas, videoReady,
                   selectedStylist, session, showImageUpload, cameraRequests,
                   streams, srcObject, fileReads>>

\* The callback of setTimeout(..., 1000).  All timers have the same delay, so
\* they fire in the order they were armed.  setMessages of an unmounted
\* instance changes nothing.
FireReply ==
    /\ timers # <<>>
    /\ timers' = Tail(timers)
    /\ lastOp' = "timer"
    /\ IF SetStateApplies(Head(timers))
       THEN /\ pendingReplies' = pendingReplies + 1
            /\ appended' = Append(appended, ReplyMessage)
       ELSE UNCHANGED <<pendingReplies, appended>>
    /\ UNCHANGED <<canvas, videoReady,
                   selectedStylist, session, messages, inputMessage,
                   showImageUpload, capturedImage, pendingImage,
                   cameraRequests, streams, srcObject, fileReads>>

\* React commits the updates queued outside its event handlers.
CommitRender ==
    /\ selectedStylist # NoStylist
    /\ pendingReplies > 0 \/ pendingImage # NoUpdate
    /\ messages' = messages \o Replies(pendingReplies)
    /\ capturedImage' = IF pendingImage # NoUpdate THEN pendingImage
                        ELSE capturedImage
    /\ pendingReplies' = 0
    /\ pendingImage' = NoUpdate
    /\ lastOp' = "render"
    /\ UNCHANGED <<canvas, videoReady,
                   selectedStylist, session, inputMessage, showImageUpload,
                   timers, cameraRequests, streams, srcObject, fileReads,
                   appended>>

\* onClick={() => setShowImageUpload(true)}
OpenImageUpload ==
    /\ selectedStylist # NoStylist
    /\ showImageUpload' = TRUE
    /\ lastOp' = "openImageUpload"
    /\ UNCHANGED <<canvas, videoReady,
                   selectedStylist, session, messages, inputMessage,
                   capturedImage, pendingReplies, pendingImage, timers,
                   cameraRequests, streams, srcObject, fileReads, appended>>

\* onClick={() => setShowImageUpload(false)}: the video element is unmounted
\* with whatever stream it shows, and the canvas with what it holds; no track
\* is stopped.
CloseImageUploadDiscards ==
    /\ selectedStylist # NoStylist
    /\ showImageUpload
    /\ showImageUpload' = FALSE
    /\ srcObject' = NoStream
    /\ capturedImage' = NoImage
    /\ pendingImage' = NoUpdate
    /\ canvas' = BlankCanvas
    /\ videoReady' = FALSE
    /\ lastOp' = "done"
    /\ UNCHANGED <<selectedStylist, session, messages, inputMessage,
                   pendingReplies, timers, cameraRequests, streams, fileReads,
                   appended>>
CloseImageUpload ==
    /\ selectedStylist # NoStylist
    /\ showImageUpload
    /\ showImageUpload' = FALSE
    /\ srcObject' = NoStream
    /\ canvas' = BlankCanvas
    /\ videoReady' = FALSE
    /\ lastOp' = "done"
    /\ UNCHANGED <<selectedStylist, session, messages, inputMessage,
                   capturedImage, pendingReplies, pendingImage, timers,
                   cameraRequests, streams, fileReads, appended>>

\* onClick={() => setCapturedImage(null)} of the close button on the preview.
DiscardImage ==
    /\ selectedStylist # NoStylist
    /\ showImageUpload
    /\ capturedImage # NoImage
    /\ capturedImage' = NoImage
    /\ pendingImage' = NoUpdate
    /\ lastOp' = "discard"
    /\ UNCHANGED <<canvas, videoReady,
                   selectedStylist, session, messages, inputMessage,
                   showImageUpload, pendingReplies, timers, cameraRequests,
                   streams, srcObject, fileReads, appended>>

\* startCamera up to its await: getUserMedia is called.
startCamera ==
    /\ selectedStylist # NoStylist
    /\ showImageUpload
    /\ Len(streams) + Len(cameraRequests) < MaxStreams
    /\ cameraRequests' = Append(cameraRequests, session)
    /\ lastOp' = "startCamera"
    /\ UNCHANGED <<canvas, videoReady,
                   selectedStylist, session, chatState, timers, streams,
                   srcObject, fileReads>>

\* startCamera after its await, getUserMedia fulfilled with a new stream:
\* the stream is bound if the instance still has a video element, which then
\* has no frame until the new stream delivers one.
CameraGranted(i) ==
    /\ i \in DOMAIN cameraRequests
    /\ cameraRequests' = RemoveAt(cameraRequests, i)
    /\ streams' = Append(streams, [owner |-> cameraRequests[i], live |-> TRUE])
    /\ srcObject' = IF VideoRef(cameraRequests[i]) THEN Len(streams) + 1
                    ELSE srcObject
    /\ videoReady' = IF VideoRef(cameraRequests[i]) THEN FALSE
                     ELSE videoReady
    /\ lastOp' = "cameraGranted"
    /\ UNCHANGED <<canvas, selectedStylist, session, chatState, timers,
                   fileReads>>

\* startCamera after its await, getUserMedia rejected: the catch clause logs.
CameraDenied(i) ==
    /\ i \in DOMAIN cameraRequests
    /\ cameraRequests' = RemoveAt(cameraRequests, i)
    /\ lastOp' = "cameraDenied"
    /\ UNCHANGED <<canvas, videoReady,
                   selectedStylist, session, chatState, timers, streams,
                   srcObject, fileReads>>

\* The video element of <video autoPlay> gets the first frame of the stream
\* bound to it, in a task after the binding.  It does so too when the tracks
\* were stopped before that task: the frame it then has is black.
VideoLoadedData ==
    /\ selectedStylist # NoStylist
    /\ showImageUpload
    /\ srcObject # NoStream
    /\ ~videoReady
    /\ videoReady' = TRUE
    /\ lastOp' = "loadeddata"
    /\ UNCHANGED <<canvas, selectedStylist, session, chatState, timers,
                   cameraRequests, streams, srcObject, fileReads>>

\* What the canvas holds after drawImage(video): the current frame of a live
\* stream the video element has a frame of; for a stream whose tracks have
\* ended, the black frame the video element renders, painted over what the
\* canvas held, or still the last frame of the stream when the capture comes
\* right after the stop; and what the canvas held (drawImage draws nothing,
\* and the canvas is never cleared) when no stream is bound or the video
\* element has no frame yet.
Frames(strs, b, ready, cnv) ==
    IF b = NoStream \/ ~ready THEN {cnv}
    ELSE IF strs[b].live THEN {<<"frame", b>>}
    ELSE {<<"frame", b>>, BlankCanvas}

\* stopCamera
stopCamera(strs, b) ==
    IF b # NoStream THEN StopTracks(strs, b) ELSE strs

\* captureImage, bound to the capture button of the upload panel, where the
\* canvas and the video element are both mounted.
captureImage ==
    /\ selectedStylist # NoStylist
    /\ showImageUpload
    /\ \E img \in Frames(streams, srcObject, videoReady, canvas) :
            /\ canvas' = img
            /\ capturedImage' = img
    /\ pendingImage' = NoUpdate
    /\ streams' = stopCamera(streams, srcObject)
    /\ lastOp' = "captureImage"
    /\ UNCHANGED <<videoReady,
                   selectedStylist, session, messages, inputMessage,
                   showImageUpload, pendingReplies, timers, cameraRequests,
                   srcObject, fileReads, appended>>

\* handleFileUpload with a file chosen: a FileReader starts reading it.
handleFileUpload(f) ==
    /\ selectedStylist # NoStylist
    /\ showImageUpload
    /\ Len(fileReads) < MaxReads
    /\ fileReads' = Append(fileReads, [owner |-> session, file |-> f])
    /\ lastOp' = "handleFileUpload"
    /\ UNCHANGED <<canvas, videoReady,
                   selectedStylist, session, chatState, timers,
                   cameraRequests, streams, srcObject>>

\* reader.onload: setCapturedImage(result), outside a React event.
FileLoaded(i) ==
    /\ i \in DOMAIN fileReads
    /\ fileReads' = RemoveAt(fileReads, i)
    /\ pendingImage' = IF SetStateApplies(fileReads[i].owner)
                       THEN DataURLOfFile(fileReads[i].file)
                       ELSE pendingImage
    /\ lastOp' = "fileLoaded"
    /\ UNCHANGED <<canvas, videoReady,
                   selectedStylist, session, messages, inputMessage,
                   showImageUpload, capturedImage, pendingReplies, timers,
                   cameraRequests, streams, srcObject, appended>>

\* The read fails: the reader has no onerror handler.
FileFailed(i) ==
    /\ i \in DOMAIN fileReads
    /\ fileReads' = RemoveAt(fileReads, i)
    /\ lastOp' = "fileFailed"
    /\ UNCHANGED <<canvas, videoReady,
                   selectedStylist, session, chatState, timers,
                   cameraRequests, streams, srcObject>>

Next ==
    \/ \E s \in Stylists : SelectStylist(s)
    \/ onBack
    \/ \E v \in Texts : ChangeInput(v)
    \/ handleSendMessage
    \/ FireReply
    \/ CommitRender
    \/ OpenImageUpload
    \/ CloseImageUpload
    \/ DiscardImage
    \/ startCamera
    \/ \E i \in 1..MaxStreams : CameraGranted(i)
    \/ \E i \in 1..MaxStreams : CameraDenied(i)
    \/ VideoLoadedData
    \/ captureImage
    \/ \E f \in Files : handleFileUpload(f)
    \/ \E i \in 1..MaxReads : FileLoaded(i)
    \/ \E i \in 1..MaxReads : FileFailed(i)

Spec == Init /\ [][Next]_vars

\* The same program with at most ChatSessions sessions and ChatStreams camera
\* requests in a run: the specification of the properties of one timeline.
NextChat ==
    \/ \E s \in Stylists : SelectStylist(s) /\ session' <= ChatSessions
    \/ onBack
    \/ \E v \in Texts : ChangeInput(v)
    \/ handleSendMessage
    \/ FireReply
    \/ CommitRender
    \/ OpenImageUpload
    \/ CloseImageUpload
    \/ DiscardImage
    \/ startCamera /\ Len(streams') + Len(cameraRequests') <= ChatStreams
    \/ \E i \in 1..MaxStreams : CameraGranted(i)
    \/ \E i \in 1..MaxStreams : CameraDenied(i)
    \/ VideoLoadedData
    \/ captureImage
    \/ \E f \in Files : handleFileUpload(f)
    \/ \E i \in 1..MaxReads : FileLoaded(i)
    \/ \E i \in 1..MaxReads : FileFailed(i)

SpecChat == Init /\ [][NextChat]_vars

\* The same program with at most LifecycleSends successful sends per session:
\* the specification of the teardown and camera properties.
NextLifecycle ==
    \/ \E s \in Stylists : SelectStylist(s)
    \/ onBack
    \/ \E v \in Texts : ChangeInput(v)
    \/ handleSendMessage /\ UserCount(appended') <= LifecycleSends
    \/ FireReply
    \/ CommitRender
    \/ OpenImageUpload
    \/ CloseImageUpload
    \/ DiscardImage
    \/ startCamera
    \/ \E i \in 1..MaxStreams : CameraGranted(i)
    \/ \E i \in 1..MaxStreams : CameraDenied(i)
    \/ VideoLoadedData
    \/ captureImage
    \/ \E f \in Files : handleFileUpload(f)
    \/ \E i \in 1..MaxReads : FileLoaded(i)
    \/ \E i \in 1..MaxReads : FileFailed(i)

SpecLifecycle == Init /\ [][NextLifecycle]_vars

\* ------------------------------------------------------------- properties

\* Everything of the mounted Chat instance and its environment except lastOp.
allButLastOp == <<selectedStylist, session, messages, inputMessage,
                  showImageUpload, capturedImage, pendingReplies, pendingImage,
                  timers, cameraRequests, streams, srcObject, fileReads,
                  appended, canvas, videoReady>>

\* C1: the timeline lists the appended messages in exactly the order the
\* appends occurred: it is always a prefix of the log of appends, and equals
\* it once every queued reply is committed; no message is dropped.
C1_TimelineListsAppends ==
    /\ IsPrefix(messages, appended)
    /\ pendingReplies = 0 => messages = appended

\* C2: a send attempted with empty text and no staged image appends nothing,
\* arms no timer and leaves text input, staged image and mode unchanged.
C2_EmptySendChangesNothing ==
    [][(lastOp' = "handleSendMessage" /\ inputMessage = <<>>
            /\ capturedImage = NoImage)
        => UNCHANGED allButLastOp]_vars

\* A send was attempted in a session in which no send has succeeded, and the
\* text input is empty and nothing is staged.
C2_Witness ==
    /\ lastOp = "handleSendMessage"
    /\ selectedStylist # NoStylist
    /\ appended = <<>>
    /\ inputMessage = <<>>
    /\ capturedImage = NoImage

\* C3: a successful send appends exactly one USER message at the tail carrying
\* the typed text and the staged image, and in the same step clears the text
\* input and the staged image and arms exactly one reply timer.
C3_SendAppendsAndClears ==
    [][(lastOp' = "handleSendMessage"
            /\ (Trim(inputMessage) # <<>> \/ capturedImage # NoImage))
        => /\ messages' = Append(messages, [text |-> inputMessage,
                                             sender |-> "user",
                                             image |-> capturedImage])
           /\ inputMessage' = <<>>
           /\ capturedImage' = NoImage
           /\ pendingImage' = NoUpdate
           /\ timers' = Append(timers, session)]_vars

\* A send has just appended a message with both a text and an image.
C3_Witness ==
    /\ lastOp = "handleSendMessage"
    /\ messages # <<>>
    /\ messages[Len(messages)].sender = "user"
    /\ messages[Len(messages)].text # <<>>
    /\ messages[Len(messages)].image # NoImage
    /\ capturedImage = NoImage
    /\ inputMessage = <<>>

\* C4: a reply timer that fires after its session was torn down appends no
\* provider message to any timeline: the state of the Chat instance on screen,
\* if any, is unchanged.
C4_StaleReplyAppendsNothing ==
    [][(lastOp' = "timer" /\ ~Mounted(Head(timers)))
        => UNCHANGED chatState]_vars

\* A timer fired in the second session before anything was appended there, so
\* it was armed by the first session.
C4_Witness ==
    /\ lastOp = "timer"
    /\ selectedStylist # NoStylist
    /\ session = 2
    /\ appended = <<>>

\* C5: after teardown no reply timer of the torn-down session is pending:
\* every armed timer belongs to the session on screen.
C5_NoTimerOutlivesSession ==
    \A i \in DOMAIN timers : Mounted(timers[i])

\* C6: after teardown no camera stream opened by the torn-down session is
\* live: every live stream belongs to the session on screen.
C6_NoStreamOutlivesSession ==
    \A i \in DOMAIN streams : streams[i].live => Mounted(streams[i].owner)

\* C7: a chat session holds at most one live camera stream.
LiveStreamsOf(o) == {i \in DOMAIN streams : streams[i].live /\ streams[i].owner = o}
C7_AtMostOneLiveStream ==
    \A o \in 1..MaxSessions : Cardinality(LiveStreamsOf(o)) <= 1

\* C8: after a capture from a bound live stream the staged image is the frame
\* captured from that stream (the current frame of the stream, not what the
\* canvas held before) and all tracks of the stream are stopped.
C8_CaptureStagesAndStops ==
    [][(lastOp' = "captureImage" /\ srcObject # NoStream
            /\ streams[srcObject].live)
        => /\ capturedImage' = <<"frame", srcObject>>
           /\ srcObject' = srcObject
           /\ ~streams'[srcObject].live]_vars

\* C9: a capture with no live stream bound stages no image and leaves the
\* staged image and all other session state unchanged.
C9_CaptureWithoutStreamChangesNothing ==
    [][(lastOp' = "captureImage"
            /\ (srcObject = NoStream \/ ~streams[srcObject].live))
        => UNCHANGED allButLastOp]_vars

\* C10: right after the user taps done, no camera stream of the session is
\* live.
C10_DoneStopsCamera ==
    lastOp = "done" => LiveStreamsOf(session) = {}

\* C11: whenever the staged image is set or replaced (by a capture or by a
\* completed file import), no camera stream of the session is live right
\* after the staging slot is written.
C11_StagingReleasesCamera ==
    [][(capturedImage' # capturedImage /\ capturedImage' # NoImage)
        => LiveStreamsOf(session)' = {}]_vars

\* C12: in every state of a live session, in text mode or in the upload
\* panel, the user can invoke send (as long as the session's sends are within
\* the bound of the model).
C12_SendInBothModes ==
    (selectedStylist # NoStylist /\ UserCount(appended) < MaxSends)
        => ENABLED handleSendMessage

\* C12 as amended: send can be invoked exactly when the session is in text
\* mode; from the upload panel the user has to tap done first.
C12_SendInTextModeOnly ==
    (selectedStylist # NoStylist /\ UserCount(appended) < MaxSends)
        => (ENABLED handleSendMessage <=> ~showImageUpload)

\* The upload panel is open with an image staged, and send cannot be invoked.
C12_Witness ==
    /\ selectedStylist # NoStylist
    /\ showImageUpload
    /\ capturedImage # NoImage
    /\ UserCount(appended) < MaxSends
    /\ ~ENABLED handleSendMessage

\* C13: a send succeeds if and only if the typed text is non-empty or an
\* image is staged; text made only of whitespace counts as non-empty.
C13_SendIffNonEmpty ==
    [][lastOp' = "handleSendMessage"
        => ((inputMessage # <<>> \/ capturedImage # NoImage)
            <=> messages' = Append(messages, [text |-> inputMessage,
                                              sender |-> "user",
                                              image |-> capturedImage]))]_vars

\* C13 as amended: a send succeeds if and only if the typed text has a
\* character that is not whitespace or an image is staged; the message holds
\* the text as typed.
HasNonSpace(text) == \E i \in DOMAIN text : text[i] # " "
C13_SendIffNonBlank ==
    [][lastOp' = "handleSendMessage"
        => ((HasNonSpace(inputMessage) \/ capturedImage # NoImage)
            <=> messages' = Append(messages, [text |-> inputMessage,
                                              sender |-> "user",
                                              image |-> capturedImage]))]_vars

\* A send was attempted with a text of whitespace and no image, and nothing
\* was appended.
C13_Witness ==
    /\ lastOp = "handleSendMessage"
    /\ selectedStylist # NoStylist
    /\ inputMessage # <<>>
    /\ ~HasNonSpace(inputMessage)
    /\ capturedImage = NoImage
    /\ appended = <<>>

\* C14: a file import leaves the staging slot alone when it starts; the slot
\* receives a file image only from a read that completed, and the image of a
\* completed read replaces whatever was staged: it is committed to the slot,
\* or carried by the message of a send made before the commit, and is dropped
\* only by a later capture, discard, import or teardown; a failed read changes
\* nothing of the session.
C14_FileImportStaging ==
    [][/\ lastOp' = "handleFileUpload"
            => UNCHANGED <<capturedImage, pendingImage>>
       /\ (pendingImage' # pendingImage /\ pendingImage' # NoUpdate)
            => /\ lastOp' = "fileLoaded"
               /\ \E i \in DOMAIN fileReads :
                    /\ fileReads' = RemoveAt(fileReads, i)
                    /\ pendingImage' = <<"file", fileReads[i].file>>
       /\ (capturedImage' # capturedImage /\ capturedImage'[1] = "file")
            => /\ lastOp' = "render"
               /\ capturedImage' = pendingImage
       /\ (pendingImage # NoUpdate
                /\ lastOp' \notin {"onBack", "captureImage", "discard",
                                   "fileLoaded"})
            => \/ pendingImage' = pendingImage
               \/ capturedImage' = pendingImage
               \/ /\ lastOp' = "handleSendMessage"
                  /\ messages' # <<>>
                  /\ messages'[Len(messages')].image = pendingImage
       /\ lastOp' = "fileFailed" => UNCHANGED <<chatState, selectedStylist,
                                                session, timers, streams,
                                                srcObject, cameraRequests>>
      ]_vars

\* C15: when startCamera fails, no stream is bound to the video element
\* afterwards, and the timeline, text input, staged image and input mode are
\* unchanged.
C15_FailedStartLeavesNoStream ==
    [][(lastOp' = "cameraDenied"
            /\ \E i \in DOMAIN cameraRequests :
                /\ cameraRequests' = RemoveAt(cameraRequests, i)
                /\ Mounted(cameraRequests[i]))
        => /\ srcObject' = NoStream
           /\ UNCHANGED <<messages, inputMessage, capturedImage,
                          showImageUpload>>]_vars

\* C16: opening the upload panel and tapping done leave the staged image, the
\* text input and the timeline unchanged.
C16_ModeSwitchKeepsStaged ==
    [][lastOp' \in {"openImageUpload", "done"}
        => UNCHANGED <<capturedImage, pendingImage, inputMessage, messages,
                       pendingReplies, appended>>]_vars

\* The user has just tapped done with an image staged, and it is still staged.
C16_Witness ==
    /\ lastOp = "done"
    /\ ~showImageUpload
    /\ capturedImage # NoImage

\* C17: a session starts with an empty timeline, empty text input, no staged
\* image and text mode, and no callback left over from an earlier session (a
\* reply timer, a file read, a camera request) changes the state of the
\* session on screen.
C17_SessionsIndependent ==
    [][/\ lastOp' = "onSelectStylist"
            => /\ messages' = <<>>
               /\ inputMessage' = <<>>
               /\ capturedImage' = NoImage
               /\ ~showImageUpload'
               /\ pendingReplies' = 0
               /\ pendingImage' = NoUpdate
               /\ srcObject' = NoStream
               /\ canvas' = BlankCanvas
               /\ ~videoReady'
       /\ (lastOp' = "timer" /\ ~Mounted(Head(timers)))
            => UNCHANGED <<chatState, srcObject, canvas, videoReady>>
       /\ (lastOp' \in {"fileLoaded", "fileFailed"}
            /\ \E i \in DOMAIN fileReads :
                /\ fileReads' = RemoveAt(fileReads, i)
                /\ ~Mounted(fileReads[i].owner))
            => UNCHANGED <<chatState, srcObject, canvas, videoReady>>
       /\ (lastOp' \in {"cameraGranted", "cameraDenied"}
            /\ \E i \in DOMAIN cameraRequests :
                /\ cameraRequests' = RemoveAt(cameraRequests, i)
                /\ ~Mounted(cameraRequests[i]))
            => UNCHANGED <<chatState, srcObject, canvas, videoReady>>
      ]_vars

\* A camera request of the first session was granted while the second session
\* had its upload panel open, and the video element of the second session
\* shows no stream.
C17_Witness ==
    /\ lastOp = "cameraGranted"
    /\ selectedStylist # NoStylist
    /\ session = 2
    /\ showImageUpload
    /\ streams # <<>>
    /\ streams[Len(streams)].owner = 1
    /\ srcObject = NoStream

ProviderCount(log) == Cardinality({i \in DOMAIN log : log[i].sender = "stylist"})

SessionTimers == Cardinality({i \in DOMAIN timers : Mounted(timers[i])})

\* C18: in a session that is not torn down, once every timer it armed has
\* fired and its reply is committed, the timeline holds exactly one PROVIDER
\* message, with the fixed text and no image, for each successful send.
C18_EverySendGetsOneReply ==
    (selectedStylist # NoStylist /\ SessionTimers = 0 /\ pendingReplies = 0)
        => /\ ProviderCount(messages) = UserCount(messages)
           /\ \A i \in DOMAIN messages :
                messages[i].sender = "stylist"
                    => messages[i].text = ReplyText /\ messages[i].image = NoImage

\* C19: every prefix of the timeline has at least as many USER messages as
\* PROVIDER messages, and while a reply timer of the session is pending (or
\* its reply is queued) the USER message that armed it is in the timeline.
C19_ReplyAfterItsUserMessage ==
    /\ \A n \in 0..Len(messages) :
            UserCount(SubSeq(messages, 1, n)) >= ProviderCount(SubSeq(messages, 1, n))
    /\ selectedStylist # NoStylist
            => UserCount(messages)
                 >= ProviderCount(messages) + pendingReplies + SessionTimers

\* The timeline is USER, PROVIDER, USER and the timer of the second send is
\* pending.
C19_Witness ==
    /\ selectedStylist # NoStylist
    /\ Len(messages) = 3
    /\ messages[1].sender = "user"
    /\ messages[2].sender = "stylist"
    /\ messages[3].sender = "user"
    /\ SessionTimers = 1

====
